---- MODULE Spec2Model ----
(***************************************************************************)
(* Model of the in-memory CRUD service of src/main.py (items, users), the  *)
(* audit log of src/audit.py and the store-clearing fixture of             *)
(* src/tests/generated/conftest.py.                                        *)
(*                                                                         *)
(* Every handler runs to completion (no await inside a handler body), so   *)
(* each handler is one atomic action.  Strings that the code lower-cases   *)
(* are sequences of ASCII code points, so that str.lower() is computed     *)
(* and not assumed.  datetime.utcnow() reads the variable clock, which     *)
(* the environment never moves backwards.                                  *)
(*                                                                         *)
(* item_issued, user_issued and audit_issued are history variables: the    *)
(* set of identifiers each create operation has returned so far.  They     *)
(* are written by the create actions only and read by no action.           *)
(*                                                                         *)
(* requests holds the create requests that are in flight at once: the      *)
(* server accepts a request, the event loop later runs its handler, and    *)
(* the handlers of the accepted requests may be run in any order.          *)
(***************************************************************************)
EXTENDS Integers, Sequences, FiniteSets, TLC

VARIABLES items_db, users_db, item_id_counter, user_id_counter,
          audit_logs, audit_id_counter, clock, last,
          item_issued, user_issued, audit_issued, requests

vars == <<items_db, users_db, item_id_counter, user_id_counter,
          audit_logs, audit_id_counter, clock, last,
          item_issued, user_issued, audit_issued, requests>>

main_state == <<items_db, users_db, item_id_counter, user_id_counter>>
audit_state == <<audit_logs, audit_id_counter>>

----------------------------------------------------------------------------
(* Bounds of the exploration *)

MaxItemId == 3
MaxUserId == 2
MaxAuditId == 3
MaxClock == 1
MaxRequests == 3

----------------------------------------------------------------------------
(* Inputs *)

\* "Bob", "bob", "amy" as ASCII code points (UserBase.username, 3..50 chars)
Bob == <<66, 111, 98>>
bob == <<98, 111, 98>>
amy == <<97, 109, 121>>
Usernames == {Bob, bob, amy}

\* "b@x.io", "B@x.io", "a@x.io" (UserBase.email, matches the pattern)
mail_b == <<98, 64, 120, 46, 105, 111>>
mail_B == <<66, 64, 120, 46, 105, 111>>
mail_a == <<97, 64, 120, 46, 105, 111>>
Emails == {mail_b, mail_B, mail_a}

\* valid UserCreate payloads (password is never stored; full_name left None)
UserCreate == [username : Usernames, email : Emails, full_name : {"None"}]

\* three of them: one user, a second one, and a case variant of the first
SomeUsers == { [username |-> Bob, email |-> mail_b, full_name |-> "None"],
               [username |-> amy, email |-> mail_a, full_name |-> "None"],
               [username |-> bob, email |-> mail_B, full_name |-> "None"] }

\* valid ItemCreate payloads: name non-empty, price > 0, quantity >= 0
ItemCreate == { [name |-> "Widget", description |-> "None", price |-> 5, quantity |-> 3],
                [name |-> "Gadget", description |-> "text", price |-> 2, quantity |-> 0],
                [name |-> "Widget", description |-> "text", price |-> 2, quantity |-> 3],
                [name |-> "Gadget", description |-> "None", price |-> 5, quantity |-> 0] }

\* two of them, differing in every field
SomeItems == { [name |-> "Widget", description |-> "None", price |-> 5, quantity |-> 3],
               [name |-> "Gadget", description |-> "text", price |-> 2, quantity |-> 0] }

OneItem == { [name |-> "Widget", description |-> "None", price |-> 5, quantity |-> 3] }

\* identifiers a caller may put in a path: every one that can exist, and one more
ItemIds == 1..(MaxItemId + 1)
UserIds == 1..(MaxUserId + 1)

\* skip and limit of a list request: any integer is accepted; 10 is the default limit
SkipValues == (-2)..4
LimitValues == ((-2)..3) \cup {10}

AuditActions == {"create", "delete"}
AuditEntities == {"item", "user"}

----------------------------------------------------------------------------
(* Helpers *)

MaxOf(S) == IF S = {} THEN 0 ELSE CHOOSE m \in S : \A x \in S : x <= m

\* variant: the comparison keeps the letter case
Lower_unchanged(s) == s

\* str.lower() on ASCII text
Lower(s) == [i \in DOMAIN s |-> IF s[i] \in 65..90 THEN s[i] + 32 ELSE s[i]]

\* for index, item in enumerate(db): if item.id == id  -- first match, 0 if none
FindIndex(db, id) ==
    IF \E i \in 1..Len(db) : db[i].id = id
    THEN CHOOSE i \in 1..Len(db) : db[i].id = id /\ \A j \in 1..(i - 1) : db[j].id # id
    ELSE 0

\* variant: list.pop() without the index, which drops the last record
Pop_last(db, index) == [k \in 1..(Len(db) - 1) |-> db[k]]

\* list.pop(index)
Pop(db, index) == [k \in 1..(Len(db) - 1) |-> IF k < index THEN db[k] ELSE db[k + 1]]

\* a slice bound i on a list of n records: negative counts from the end, then clamped
SliceBound(i, n) ==
    IF i < 0 THEN (IF i + n < 0 THEN 0 ELSE i + n)
             ELSE (IF i > n THEN n ELSE i)

\* db[start : stop]
PySlice(db, start, stop) ==
    LET a == SliceBound(start, Len(db))
        b == SliceBound(stop, Len(db))
    IN IF a >= b THEN <<>> ELSE [k \in 1..(b - a) |-> db[a + k]]

\* variant: the limit is taken as the end position
SliceStop_limit_only(skip, limit) == limit

\* skip + limit
SliceStop(skip, limit) == skip + limit

\* Item(id=..., ..., created_at=now, updated_at=now)
NewItem(id, item, now) ==
    [id |-> id, name |-> item.name, description |-> item.description,
     price |-> item.price, quantity |-> item.quantity,
     created_at |-> now, updated_at |-> now]

\* variant: the replacement record is stamped like a new one
UpdatedItem_created_now(item, item_update, now) ==
    [id |-> item.id, name |-> item_update.name, description |-> item_update.description,
     price |-> item_update.price, quantity |-> item_update.quantity,
     created_at |-> now, updated_at |-> now]

\* variant: the two timestamps are passed in each other's place
UpdatedItem_timestamps_swapped(item, item_update, now) ==
    [id |-> item.id, name |-> item_update.name, description |-> item_update.description,
     price |-> item_update.price, quantity |-> item_update.quantity,
     created_at |-> now, updated_at |-> item.created_at]

\* Item(id=item.id, <payload>, created_at=item.created_at, updated_at=utcnow())
UpdatedItem(item, item_update, now) ==
    [id |-> item.id, name |-> item_update.name, description |-> item_update.description,
     price |-> item_update.price, quantity |-> item_update.quantity,
     created_at |-> item.created_at, updated_at |-> now]

\* variant: the record is built inactive
NewUser_inactive(id, user, now) ==
    [id |-> id, username |-> user.username, email |-> user.email,
     full_name |-> user.full_name, is_active |-> FALSE, created_at |-> now]

\* User(id=..., ..., is_active=True, created_at=utcnow())
NewUser(id, user, now) ==
    [id |-> id, username |-> user.username, email |-> user.email,
     full_name |-> user.full_name, is_active |-> TRUE, created_at |-> now]

\* AuditLog(id=..., action, entity, timestamp=utcnow())
NewLog(id, action, entity, now) ==
    [id |-> id, action |-> action, entity |-> entity, timestamp |-> now]

\* variant: every username is compared first, the emails only after that
CheckDuplicates_field_by_field(db, user, i) ==
    IF \E k \in i..Len(db) : Lower(db[k].username) = Lower(user.username)
    THEN "Username already exists"
    ELSE IF \E k \in i..Len(db) : Lower(db[k].email) = Lower(user.email)
    THEN "Email already exists"
    ELSE ""

\* the duplicate loop of create_user from position i on: "" when it falls through
RECURSIVE CheckDuplicates(_, _, _)
CheckDuplicates(db, user, i) ==
    IF i > Len(db) THEN ""
    ELSE IF Lower(db[i].username) = Lower(user.username) THEN "Username already exists"
    ELSE IF Lower(db[i].email) = Lower(user.email) THEN "Email already exists"
    ELSE CheckDuplicates(db, user, i + 1)

\* sum(item.price * item.quantity for item in db), from position i on
RECURSIVE InventoryValue(_, _)
InventoryValue(db, i) ==
    IF i > Len(db) THEN 0
    ELSE db[i].price * db[i].quantity + InventoryValue(db, i + 1)

\* sum(1 for user in db if user.is_active)
ActiveUsers(db) == Cardinality({i \in 1..Len(db) : db[i].is_active})

\* what a handler hands back: status code, error detail, id of the returned record
Response(op, arg, status, detail, id) ==
    [op |-> op, arg |-> arg, status |-> status, detail |-> detail, id |-> id]

\* the answer of a handler that returns a body (a list, the statistics)
BodyResponse(op, arg, body) ==
    [op |-> op, arg |-> arg, status |-> 200, detail |-> "", id |-> 0, body |-> body]

\* a request slot: nothing received yet
Idle == [state |-> "idle", op |-> "", payload |-> 0, status |-> 0, id |-> 0]

----------------------------------------------------------------------------
(* Initial state: the module-level globals *)

Init ==
    /\ items_db = <<>>
    /\ users_db = <<>>
    /\ item_id_counter = 1
    /\ user_id_counter = 1
    /\ audit_logs = <<>>
    /\ audit_id_counter = 1
    /\ clock = 0
    /\ last = Response("init", 0, 0, "", 0)
    /\ item_issued = {}
    /\ user_issued = {}
    /\ audit_issued = {}
    /\ requests = [r \in 1..MaxRequests |-> Idle]

----------------------------------------------------------------------------
(* Items *)

\* variant: the counter is advanced before it is read
new_item_id_incremented_first == item_id_counter + 1

\* variant: the id is derived from the size of the store
new_item_id_from_length == Len(items_db) + 1

\* id=item_id_counter
new_item_id == item_id_counter

\* variant: the create also records an audit entry
create_item_audited(item) ==
    /\ item_id_counter <= MaxItemId
    /\ \E now \in clock..MaxClock :
        /\ clock' = now
        /\ items_db' = Append(items_db, NewItem(new_item_id, item, now))
        /\ audit_logs' = Append(audit_logs, NewLog(audit_id_counter, "create", "item", now))
    /\ item_id_counter' = item_id_counter + 1
    /\ audit_id_counter' = audit_id_counter + 1
    /\ last' = Response("create_item", item, 201, "", new_item_id)
    /\ item_issued' = item_issued \cup {new_item_id}
    /\ audit_issued' = audit_issued \cup {audit_id_counter}
    /\ UNCHANGED <<users_db, user_id_counter, user_issued>>

create_item(item) ==
    /\ item_id_counter <= MaxItemId
    /\ \E now \in clock..MaxClock :
        /\ clock' = now
        /\ items_db' = Append(items_db, NewItem(new_item_id, item, now))
    /\ item_id_counter' = item_id_counter + 1
    /\ last' = Response("create_item", item, 201, "", new_item_id)
    /\ item_issued' = item_issued \cup {new_item_id}
    /\ UNCHANGED <<users_db, user_id_counter, audit_state, user_issued, audit_issued>>

get_items(skip, limit) ==
    /\ last' = BodyResponse("get_items", [skip |-> skip, limit |-> limit],
                            PySlice(items_db, skip, SliceStop(skip, limit)))
    /\ UNCHANGED <<main_state, audit_state, clock, item_issued, user_issued, audit_issued>>

get_item(item_id) ==
    /\ LET index == FindIndex(items_db, item_id) IN
         last' = IF index # 0
                 THEN Response("get_item", item_id, 200, "", items_db[index].id)
                 ELSE Response("get_item", item_id, 404, "Item not found", 0)
    /\ UNCHANGED <<main_state, audit_state, clock, item_issued, user_issued, audit_issued>>

update_item(item_id, item_update) ==
    LET index == FindIndex(items_db, item_id) IN
    /\ IF index # 0
       THEN \E now \in clock..MaxClock :
              /\ clock' = now
              /\ items_db' = [items_db EXCEPT ![index] = UpdatedItem(items_db[index], item_update, now)]
              /\ last' = Response("update_item", [id |-> item_id, item |-> item_update],
                                  200, "", items_db[index].id)
       ELSE /\ last' = Response("update_item", [id |-> item_id, item |-> item_update],
                                404, "Item not found", 0)
            /\ UNCHANGED <<items_db, clock>>
    /\ UNCHANGED <<users_db, item_id_counter, user_id_counter, audit_state,
                   item_issued, user_issued, audit_issued>>

delete_item(item_id) ==
    LET index == FindIndex(items_db, item_id) IN
    /\ IF index # 0
       THEN /\ items_db' = Pop(items_db, index)
            /\ last' = Response("delete_item", item_id, 204, "", 0)
       ELSE /\ last' = Response("delete_item", item_id, 404, "Item not found", 0)
            /\ UNCHANGED items_db
    /\ UNCHANGED <<users_db, item_id_counter, user_id_counter, audit_state, clock,
                   item_issued, user_issued, audit_issued>>

----------------------------------------------------------------------------
(* Users *)

\* variant: the id is derived from the size of the store
new_user_id_from_length == Len(users_db) + 1

\* id=user_id_counter
new_user_id == user_id_counter

\* variant: the counter is advanced before the duplicate check
create_user_counter_first(user) ==
    LET detail == CheckDuplicates(users_db, user, 1) IN
    /\ user_id_counter <= MaxUserId
    /\ user_id_counter' = user_id_counter + 1
    /\ IF detail # ""
       THEN /\ last' = Response("create_user", user, 400, detail, 0)
            /\ UNCHANGED <<users_db, clock, user_issued>>
       ELSE /\ \E now \in clock..MaxClock :
                 /\ clock' = now
                 /\ users_db' = Append(users_db, NewUser(new_user_id, user, now))
            /\ last' = Response("create_user", user, 201, "", new_user_id)
            /\ user_issued' = user_issued \cup {new_user_id}
    /\ UNCHANGED <<items_db, item_id_counter, audit_state, item_issued, audit_issued>>

create_user(user) ==
    LET detail == CheckDuplicates(users_db, user, 1) IN
    /\ IF detail # ""
       THEN /\ last' = Response("create_user", user, 400, detail, 0)
            /\ UNCHANGED <<users_db, user_id_counter, clock, user_issued>>
       ELSE /\ user_id_counter <= MaxUserId
            /\ \E now \in clock..MaxClock :
                 /\ clock' = now
                 /\ users_db' = Append(users_db, NewUser(new_user_id, user, now))
            /\ user_id_counter' = user_id_counter + 1
            /\ last' = Response("create_user", user, 201, "", new_user_id)
            /\ user_issued' = user_issued \cup {new_user_id}
    /\ UNCHANGED <<items_db, item_id_counter, audit_state, item_issued, audit_issued>>

get_users(skip, limit) ==
    /\ last' = BodyResponse("get_users", [skip |-> skip, limit |-> limit],
                            PySlice(users_db, skip, SliceStop(skip, limit)))
    /\ UNCHANGED <<main_state, audit_state, clock, item_issued, user_issued, audit_issued>>

get_user(user_id) ==
    /\ LET index == FindIndex(users_db, user_id) IN
         last' = IF index # 0
                 THEN Response("get_user", user_id, 200, "", users_db[index].id)
                 ELSE Response("get_user", user_id, 404, "User not found", 0)
    /\ UNCHANGED <<main_state, audit_state, clock, item_issued, user_issued, audit_issued>>

\* variant: only the stored username is lower-cased
get_user_by_username_argument_as_typed(username) ==
    /\ last' = IF \E i \in 1..Len(users_db) : Lower(users_db[i].username) = username
               THEN LET index == CHOOSE i \in 1..Len(users_db) :
                                   /\ Lower(users_db[i].username) = username
                                   /\ \A j \in 1..(i - 1) :
                                        Lower(users_db[j].username) # username
                    IN Response("get_user_by_username", username, 200, "", users_db[index].id)
               ELSE Response("get_user_by_username", username, 404, "User not found", 0)
    /\ UNCHANGED <<main_state, audit_state, clock, item_issued, user_issued, audit_issued>>

get_user_by_username(username) ==
    /\ last' = IF \E i \in 1..Len(users_db) : Lower(users_db[i].username) = Lower(username)
               THEN LET index == CHOOSE i \in 1..Len(users_db) :
                                   /\ Lower(users_db[i].username) = Lower(username)
                                   /\ \A j \in 1..(i - 1) :
                                        Lower(users_db[j].username) # Lower(username)
                    IN Response("get_user_by_username", username, 200, "", users_db[index].id)
               ELSE Response("get_user_by_username", username, 404, "User not found", 0)
    /\ UNCHANGED <<main_state, audit_state, clock, item_issued, user_issued, audit_issued>>

----------------------------------------------------------------------------
(* Statistics *)

\* the prices of the inputs are whole numbers, so the sum has no digits for
\* round(total_inventory_value, 2) to drop
get_statistics ==
    /\ last' = BodyResponse("get_statistics", 0,
                            [total_items |-> Len(items_db),
                             total_users |-> Len(users_db),
                             total_inventory_value |-> InventoryValue(items_db, 1),
                             active_users |-> ActiveUsers(users_db)])
    /\ UNCHANGED <<main_state, audit_state, clock, item_issued, user_issued, audit_issued>>

----------------------------------------------------------------------------
(* Audit log *)

\* id=audit_id_counter
new_audit_id == audit_id_counter

create_audit_log(action, entity) ==
    /\ audit_id_counter <= MaxAuditId
    /\ \E now \in clock..MaxClock :
        /\ clock' = now
        /\ audit_logs' = Append(audit_logs, NewLog(new_audit_id, action, entity, now))
    /\ audit_id_counter' = audit_id_counter + 1
    /\ last' = Response("create_audit_log", [action |-> action, entity |-> entity],
                        200, "", new_audit_id)
    /\ audit_issued' = audit_issued \cup {new_audit_id}
    /\ UNCHANGED <<main_state, item_issued, user_issued>>

get_audit_logs ==
    /\ last' = BodyResponse("get_audit_logs", 0, audit_logs)
    /\ UNCHANGED <<main_state, audit_state, clock, item_issued, user_issued, audit_issued>>

\* variant: the entries are dropped, the counter is not set back
clear_logs_keeps_counter ==
    /\ audit_logs' = <<>>
    /\ last' = Response("clear_logs", 0, 204, "", 0)
    /\ UNCHANGED <<main_state, audit_id_counter, clock, item_issued, user_issued, audit_issued>>

clear_logs ==
    /\ audit_logs' = <<>>
    /\ audit_id_counter' = 1
    /\ last' = Response("clear_logs", 0, 204, "", 0)
    /\ UNCHANGED <<main_state, clock, item_issued, user_issued, audit_issued>>

----------------------------------------------------------------------------
(* Test fixture: every public list attribute of module main is cleared;   *)
(* the integer counters are not lists and keep their values.              *)

\* variant: the fixture also sets the two counters back
reset_global_state_with_counters ==
    /\ items_db' = <<>>
    /\ users_db' = <<>>
    /\ item_id_counter' = 1
    /\ user_id_counter' = 1
    /\ last' = Response("reset_global_state", 0, 0, "", 0)
    /\ UNCHANGED <<audit_state, clock, item_issued, user_issued, audit_issued>>

reset_global_state ==
    /\ items_db' = <<>>
    /\ users_db' = <<>>
    /\ last' = Response("reset_global_state", 0, 0, "", 0)
    /\ UNCHANGED <<item_id_counter, user_id_counter, audit_state, clock,
                   item_issued, user_issued, audit_issued>>

----------------------------------------------------------------------------
(* Requests in flight.  Both create handlers are coroutines (async def)    *)
(* whose bodies contain no await: once the event loop starts one it runs   *)
(* to its return before any other handler starts.  What interleaves is    *)
(* the arrival of requests and the order in which their handlers are run. *)

Requests == 1..MaxRequests

\* POST /items arrives with a valid body; its handler is yet to be run
receive_create_item(r, item) ==
    /\ requests[r].state = "idle"
    /\ requests' = [requests EXCEPT ![r] =
                        [state |-> "pending", op |-> "create_item", payload |-> item,
                         status |-> 0, id |-> 0]]
    /\ UNCHANGED <<main_state, audit_state, clock, last,
                   item_issued, user_issued, audit_issued>>

\* POST /users arrives with a valid body; its handler is yet to be run
receive_create_user(r, user) ==
    /\ requests[r].state = "idle"
    /\ requests' = [requests EXCEPT ![r] =
                        [state |-> "pending", op |-> "create_user", payload |-> user,
                         status |-> 0, id |-> 0]]
    /\ UNCHANGED <<main_state, audit_state, clock, last,
                   item_issued, user_issued, audit_issued>>

\* variant: the handler is suspended after the append and before the
\* increment of the counter, and other handlers run in between
run_create_item_suspended(r) ==
    /\ requests[r].op = "create_item"
    /\ \/ /\ requests[r].state = "pending"
          /\ item_id_counter <= MaxItemId
          /\ items_db' = Append(items_db, NewItem(new_item_id, requests[r].payload, clock))
          /\ item_issued' = item_issued \cup {new_item_id}
          /\ requests' = [requests EXCEPT ![r].state = "suspended", ![r].id = new_item_id]
          /\ UNCHANGED <<item_id_counter, last>>
       \/ /\ requests[r].state = "suspended"
          /\ item_id_counter' = item_id_counter + 1
          /\ last' = Response("create_item", requests[r].payload, 201, "", requests[r].id)
          /\ requests' = [requests EXCEPT ![r].state = "done", ![r].status = 201]
          /\ UNCHANGED <<items_db, item_issued>>
    /\ UNCHANGED <<users_db, user_id_counter, audit_state, clock, user_issued, audit_issued>>

\* the event loop runs the handler of a received POST /items to its return
run_create_item(r) ==
    /\ requests[r].state = "pending"
    /\ requests[r].op = "create_item"
    /\ create_item(requests[r].payload)
    /\ requests' = [requests EXCEPT ![r].state = "done",
                                     ![r].status = last'.status,
                                     ![r].id = last'.id]

\* variant: the handler is suspended after the duplicate check and before
\* the append, and other handlers run in between
run_create_user_suspended(r) ==
    /\ requests[r].op = "create_user"
    /\ \/ /\ requests[r].state = "pending"
          /\ LET detail == CheckDuplicates(users_db, requests[r].payload, 1) IN
               IF detail # ""
               THEN /\ last' = Response("create_user", requests[r].payload, 400, detail, 0)
                    /\ requests' = [requests EXCEPT ![r].state = "done", ![r].status = 400]
               ELSE /\ requests' = [requests EXCEPT ![r].state = "suspended"]
                    /\ UNCHANGED last
          /\ UNCHANGED <<users_db, user_id_counter, user_issued>>
       \/ /\ requests[r].state = "suspended"
          /\ user_id_counter <= MaxUserId
          /\ users_db' = Append(users_db, NewUser(new_user_id, requests[r].payload, clock))
          /\ user_id_counter' = user_id_counter + 1
          /\ user_issued' = user_issued \cup {new_user_id}
          /\ last' = Response("create_user", requests[r].payload, 201, "", new_user_id)
          /\ requests' = [requests EXCEPT ![r].state = "done", ![r].status = 201,
                                           ![r].id = new_user_id]
    /\ UNCHANGED <<items_db, item_id_counter, audit_state, clock, item_issued, audit_issued>>

\* the event loop runs the handler of a received POST /users to its return
run_create_user(r) ==
    /\ requests[r].state = "pending"
    /\ requests[r].op = "create_user"
    /\ create_user(requests[r].payload)
    /\ requests' = [requests EXCEPT ![r].state = "done",
                                     ![r].status = last'.status,
                                     ![r].id = last'.id]

----------------------------------------------------------------------------

\* src/main.py, items, and the fixture that clears the stores
NextItems ==
    \/ \E item \in SomeItems : create_item(item) /\ UNCHANGED requests
    \/ \E item_id \in ItemIds : get_item(item_id) /\ UNCHANGED requests
    \/ \E item_id \in ItemIds, item_update \in SomeItems : update_item(item_id, item_update) /\ UNCHANGED requests
    \/ \E item_id \in ItemIds : delete_item(item_id) /\ UNCHANGED requests
    \/ reset_global_state /\ UNCHANGED requests

SpecItems == Init /\ [][NextItems]_vars

\* src/main.py, users, and the fixture that clears the stores
NextUsers ==
    \/ \E user \in UserCreate : create_user(user) /\ UNCHANGED requests
    \/ \E user_id \in UserIds : get_user(user_id) /\ UNCHANGED requests
    \/ \E username \in Usernames : get_user_by_username(username) /\ UNCHANGED requests
    \/ reset_global_state /\ UNCHANGED requests

SpecUsers == Init /\ [][NextUsers]_vars

\* src/audit.py
NextAudit ==
    \/ \E action \in AuditActions, entity \in AuditEntities : create_audit_log(action, entity) /\ UNCHANGED requests
    \/ get_audit_logs /\ UNCHANGED requests
    \/ clear_logs /\ UNCHANGED requests

SpecAudit == Init /\ [][NextAudit]_vars

\* only create_item is ever called
NextCreateOnly == \E item \in ItemCreate : create_item(item) /\ UNCHANGED requests

SpecCreateOnly == Init /\ [][NextCreateOnly]_vars

\* the list handlers over every content of the two stores; the clock stands still
NextList ==
    \/ \E item \in OneItem : create_item(item) /\ clock' = clock /\ UNCHANGED requests
    \/ \E item_id \in ItemIds : delete_item(item_id) /\ clock' = clock /\ UNCHANGED requests
    \/ \E user \in SomeUsers : create_user(user) /\ clock' = clock /\ UNCHANGED requests
    \/ \E skip \in SkipValues, limit \in LimitValues : get_items(skip, limit) /\ UNCHANGED requests
    \/ \E skip \in SkipValues, limit \in LimitValues : get_users(skip, limit) /\ UNCHANGED requests

SpecList == Init /\ [][NextList]_vars

\* create requests of both kinds, several in flight at once, their handlers run
\* in any order
NextConcurrent ==
    \/ \E r \in Requests, item \in OneItem : receive_create_item(r, item)
    \/ \E r \in Requests, user \in SomeUsers : receive_create_user(r, user)
    \/ \E r \in Requests : run_create_item(r)
    \/ \E r \in Requests : run_create_user(r)

SpecConcurrent == Init /\ [][NextConcurrent]_vars

\* every operation of the three stores, interleaved; the timestamps are explored
\* by the specifications above, here the clock stands still
Next ==
    \/ \E item \in OneItem : create_item(item) /\ clock' = clock /\ UNCHANGED requests
    \/ \E item_id \in ItemIds : get_item(item_id) /\ clock' = clock /\ UNCHANGED requests
    \/ \E item_id \in ItemIds, item_update \in OneItem : update_item(item_id, item_update) /\ clock' = clock /\ UNCHANGED requests
    \/ \E item_id \in ItemIds : delete_item(item_id) /\ clock' = clock /\ UNCHANGED requests
    \/ \E user \in SomeUsers : create_user(user) /\ clock' = clock /\ UNCHANGED requests
    \/ \E user_id \in UserIds : get_user(user_id) /\ clock' = clock /\ UNCHANGED requests
    \/ \E username \in {bob, amy} : get_user_by_username(username) /\ clock' = clock /\ UNCHANGED requests
    \/ get_items(0, 10) /\ UNCHANGED requests
    \/ get_users(0, 10) /\ UNCHANGED requests
    \/ get_statistics /\ UNCHANGED requests
    \/ create_audit_log("create", "item") /\ clock' = clock /\ UNCHANGED requests
    \/ get_audit_logs /\ UNCHANGED requests
    \/ clear_logs /\ clock' = clock /\ UNCHANGED requests
    \/ reset_global_state /\ clock' = clock /\ UNCHANGED requests

Spec == Init /\ [][Next]_vars

----------------------------------------------------------------------------
(* Identifier allocation *)

\* C1: from the initial state, when only create_item is called, the k-th call
\* stores and returns id k: the ids in the store are 1..N in creation order.
C1_CreatesNumberedInOrder ==
    /\ \A k \in 1..Len(items_db) : items_db[k].id = k
    /\ last.op = "create_item" => last.id = Len(items_db)

C1_Witness == last.op = "create_item" /\ Len(items_db) = 3 /\ last.id = 3

\* C2: whatever creates, updates and deletes came before, the id a create_item
\* returns was never returned before and is the largest id ever allocated plus 1.
C2_CreateNeverReusesId ==
    [][Len(items_db') > Len(items_db) =>
         LET new == items_db'[Len(items_db')].id IN
           /\ new \notin item_issued
           /\ new = MaxOf(item_issued) + 1
           /\ last'.id = new]_vars

\* ids 1 and 2 created, 1 deleted, then a create answered 3
C2_Witness ==
    /\ last.op = "create_item" /\ last.id = 3
    /\ Len(items_db) = 2 /\ items_db[1].id = 2

\* the id of the record a step appended to db (db2 is db after the step)
Appended(db, db2) == db2[Len(db2)].id

\* C3: in items, users and audit logs alike, the id a create returns was never
\* returned before in that collection and exceeds every id returned before,
\* whatever delete_item, clear_logs or store clearing came in between.
C3_Original_NoCollectionReusesId ==
    [][/\ Len(items_db') > Len(items_db) =>
            Appended(items_db, items_db') > MaxOf(item_issued)
       /\ Len(users_db') > Len(users_db) =>
            Appended(users_db, users_db') > MaxOf(user_issued)
       /\ Len(audit_logs') > Len(audit_logs) =>
            Appended(audit_logs, audit_logs') > MaxOf(audit_issued)]_vars

\* C3 as amended: for items and users the above holds; an audit id exceeds the
\* id of every entry recorded since the latest clear_logs (the entries in the log
\* are numbered 1, 2, ... in order), and clear_logs restarts the numbering at 1.
C3_IdsIncreasePerCollectionAuditSinceClear ==
    [][/\ Len(items_db') > Len(items_db) =>
            Appended(items_db, items_db') > MaxOf(item_issued)
       /\ Len(users_db') > Len(users_db) =>
            Appended(users_db, users_db') > MaxOf(user_issued)
       /\ Len(audit_logs') > Len(audit_logs) =>
            /\ Appended(audit_logs, audit_logs') = Len(audit_logs) + 1
            /\ \A k \in 1..Len(audit_logs) : audit_logs[k].id = k
       /\ last'.op = "clear_logs" => audit_id_counter' = 1]_vars

\* item 3 and user 2 created after their stores were emptied, and audit id 1
\* handed out a second time after ids 1 and 2 had been handed out
C3_Witness ==
    /\ last.op = "create_audit_log" /\ last.id = 1 /\ 2 \in audit_issued
    /\ Len(users_db) = 1 /\ users_db[1].id = 2
    /\ Len(items_db) = 1 /\ items_db[1].id = 3

----------------------------------------------------------------------------
(* User uniqueness *)

\* two texts that differ at most in the case of their ASCII letters
EqualIgnoringCase(a, b) ==
    /\ Len(a) = Len(b)
    /\ \A i \in 1..Len(a) :
         \/ a[i] = b[i]
         \/ a[i] \in 65..90 /\ b[i] = a[i] + 32
         \/ b[i] \in 65..90 /\ a[i] = b[i] + 32

\* C4: no two distinct users of users_db have usernames equal up to letter
\* case, and no two have emails equal up to letter case.
C4_UsersUniqueIgnoringCase ==
    \A i, j \in 1..Len(users_db) :
        i # j => /\ ~EqualIgnoringCase(users_db[i].username, users_db[j].username)
                 /\ ~EqualIgnoringCase(users_db[i].email, users_db[j].email)

\* two users stored, and a candidate turned away whose username is stored only
\* in another letter case
C4_Witness ==
    /\ last.op = "create_user" /\ last.status = 400 /\ Len(users_db) = 2
    /\ \A i \in 1..Len(users_db) : users_db[i].username # last.arg.username
    /\ \E i \in 1..Len(users_db) :
         EqualIgnoringCase(users_db[i].username, last.arg.username)

UsernameConflict(i) == EqualIgnoringCase(users_db[i].username, last.arg.username)
EmailConflict(i) == EqualIgnoringCase(users_db[i].email, last.arg.email)

\* C5: a create_user rejected as duplicate reports the username error whenever
\* any stored user has the candidate's username up to case, and the email error
\* only when none has.  (A rejected create leaves users_db as it was.)
C5_Original_UsernameErrorWins ==
    (last.op = "create_user" /\ last.status = 400) =>
        (last.detail = "Username already exists"
            <=> \E i \in 1..Len(users_db) : UsernameConflict(i))

\* C5 as amended: the first stored user, in store order, that has the candidate's
\* username or email up to case decides: username error if its username matches,
\* email error otherwise.
C5_FirstConflictingUserDecides ==
    (last.op = "create_user" /\ last.status = 400) =>
        \E i \in 1..Len(users_db) :
            /\ UsernameConflict(i) \/ EmailConflict(i)
            /\ \A j \in 1..(i - 1) : ~UsernameConflict(j) /\ ~EmailConflict(j)
            /\ last.detail = IF UsernameConflict(i) THEN "Username already exists"
                                                   ELSE "Email already exists"

\* the email error was reported although a stored user has the username
C5_Witness ==
    /\ last.op = "create_user" /\ last.status = 400
    /\ last.detail = "Email already exists"
    /\ \E i \in 1..Len(users_db) : UsernameConflict(i)

----------------------------------------------------------------------------
(* Errors and frame conditions *)

\* C6: a call answered with an error (404 not found, 400 duplicate) leaves
\* items_db, users_db, item_id_counter and user_id_counter as they were.
C6_ErrorsChangeNothing ==
    [][last'.status \in {400, 404} =>
         UNCHANGED <<items_db, users_db, item_id_counter, user_id_counter>>]_vars

\* a duplicate user was turned away and the one id handed out so far is still
\* the only one consumed
C6_Witness ==
    /\ last.op = "create_user" /\ last.status = 400
    /\ Len(users_db) = 1 /\ user_id_counter = 2 /\ Len(items_db) >= 1

\* C7: clear_logs empties audit_logs and sets audit_id_counter to 1, and the
\* first create_audit_log into the emptied log returns id 1.
C7_ClearLogsRestartsAtOne ==
    [][/\ last'.op = "clear_logs" => audit_logs' = <<>> /\ audit_id_counter' = 1
       /\ (audit_logs = <<>> /\ Len(audit_logs') = 1) =>
            audit_logs'[1].id = 1 /\ last'.id = 1]_vars

\* three entries had been recorded, the log was cleared, the next entry got id 1
C7_Witness ==
    /\ last.op = "create_audit_log" /\ last.id = 1
    /\ Len(audit_logs) = 1 /\ audit_issued = {1, 2, 3}

\* C8: the fixture empties items_db and users_db and keeps both counters, and a
\* create into an emptied store returns the largest id ever allocated plus 1.
C8_ClearingStoresKeepsCounters ==
    [][/\ last'.op = "reset_global_state" =>
            /\ items_db' = <<>> /\ users_db' = <<>>
            /\ UNCHANGED <<item_id_counter, user_id_counter>>
       /\ (items_db = <<>> /\ Len(items_db') = 1) =>
            items_db'[1].id = MaxOf(item_issued) + 1 /\ last'.id = items_db'[1].id
       /\ (users_db = <<>> /\ Len(users_db') = 1) =>
            users_db'[1].id = MaxOf(user_issued) + 1 /\ last'.id = users_db'[1].id]_vars

\* a user had been created and the stores emptied; the next create_item got id 2
C8_Witness ==
    /\ last.op = "create_item" /\ last.id = 2 /\ Len(items_db) = 1
    /\ users_db = <<>> /\ user_id_counter = 2

----------------------------------------------------------------------------
(* Item update *)

\* C9: a successful update_item keeps the length of items_db, the counter and
\* every other record, and the record at the position of the id keeps its id and
\* created_at and gets an updated_at not earlier than the one it had.
C9_UpdateReplacesInPlace ==
    [][(last'.op = "update_item" /\ last'.status = 200) =>
         /\ Len(items_db') = Len(items_db)
         /\ item_id_counter' = item_id_counter
         /\ \E i \in 1..Len(items_db) :
              /\ items_db[i].id = last'.arg.id
              /\ items_db'[i].id = items_db[i].id
              /\ items_db'[i].created_at = items_db[i].created_at
              /\ items_db'[i].updated_at >= items_db[i].updated_at
              /\ \A j \in 1..Len(items_db) : j # i => items_db'[j] = items_db[j]]_vars

\* the second of two items was updated after the clock had advanced
C9_Witness ==
    /\ last.op = "update_item" /\ last.status = 200 /\ Len(items_db) = 2
    /\ last.arg.id = items_db[2].id
    /\ items_db[2].updated_at > items_db[2].created_at

\* C10: every item of items_db has updated_at >= created_at.
C10_UpdatedNotBeforeCreated ==
    \A i \in 1..Len(items_db) : items_db[i].updated_at >= items_db[i].created_at

\* an item created at one time and updated at a later one
C10_Witness ==
    \E i \in 1..Len(items_db) :
        /\ items_db[i].created_at = 0 /\ items_db[i].updated_at = 1
        /\ last.op = "update_item" /\ last.status = 200

----------------------------------------------------------------------------
(* Item delete *)

\* C11: a successful delete_item(id) removes exactly the one record with that
\* id: items_db is one shorter, the records before it stay where they were, the
\* records after it move down by one position, item_id_counter is unchanged.
C11_DeleteRemovesExactlyOne ==
    [][(last'.op = "delete_item" /\ last'.status = 204) =>
         /\ Len(items_db') = Len(items_db) - 1
         /\ item_id_counter' = item_id_counter
         /\ \E i \in 1..Len(items_db) :
              /\ items_db[i].id = last'.arg
              /\ \A j \in 1..Len(items_db) : j # i => items_db[j].id # last'.arg
              /\ \A j \in 1..(i - 1) : items_db'[j] = items_db[j]
              /\ \A j \in i..Len(items_db') : items_db'[j] = items_db[j + 1]]_vars

\* the middle one of three items was deleted
C11_Witness ==
    /\ last.op = "delete_item" /\ last.status = 204 /\ last.arg = 2
    /\ Len(items_db) = 2 /\ items_db[1].id = 1 /\ items_db[2].id = 3

----------------------------------------------------------------------------
(* Listing *)

\* the store a list request reads
Listed == IF last.op = "get_items" THEN items_db ELSE users_db

\* C12: for skip >= 0 and limit >= 0, get_items and get_users answer 200 with
\* exactly the records at positions skip .. min(skip+limit, length)-1 (counted
\* from 0) of the store, in store order, and with nothing when skip >= length.
\* (A list request leaves the store as it was.)
C12_ListReturnsWindow ==
    (last.op \in {"get_items", "get_users"} /\ last.arg.skip >= 0 /\ last.arg.limit >= 0) =>
        LET n == Len(Listed)
            stop == IF last.arg.skip + last.arg.limit < n
                    THEN last.arg.skip + last.arg.limit ELSE n
        IN /\ last.status = 200
           /\ Len(last.body) = (IF last.arg.skip >= n THEN 0 ELSE stop - last.arg.skip)
           /\ \A k \in 1..Len(last.body) : last.body[k] = Listed[last.arg.skip + k]

\* skip=2, limit=10 on a store of three records gave the record at index 2
C12_Witness ==
    /\ last.op = "get_items" /\ last.arg.skip = 2 /\ last.arg.limit = 10
    /\ Len(items_db) = 3 /\ last.body = <<items_db[3]>>

\* C13: for every integer skip and limit, negative ones included, get_items
\* returns at most max(limit, 0) records and no record that lies before
\* position skip (counted from 0) of the store.
C13_Claim_AtMostLimitFromSkip ==
    last.op = "get_items" =>
        /\ Len(last.body) <= (IF last.arg.limit > 0 THEN last.arg.limit ELSE 0)
        /\ \A k \in 1..Len(last.body) :
             \A p \in 1..Len(items_db) :
                 items_db[p] = last.body[k] => p - 1 >= last.arg.skip

----------------------------------------------------------------------------
(* Lookup *)

\* the positions of users_db whose username is u up to letter case
UsersNamed(u) == {i \in 1..Len(users_db) : EqualIgnoringCase(users_db[i].username, u)}

\* C17: get_user_by_username(u) answers 404 exactly when no stored username
\* equals u up to letter case, and otherwise returns the one user that does,
\* whatever the letter case of u.  (A lookup leaves users_db as it was.)
C17_LookupByUsernameIgnoresCase ==
    last.op = "get_user_by_username" =>
        IF UsersNamed(last.arg) = {}
        THEN last.status = 404
        ELSE /\ Cardinality(UsersNamed(last.arg)) = 1
             /\ last.status = 200
             /\ \E i \in UsersNamed(last.arg) : last.id = users_db[i].id

\* a user was found under a spelling of the name that is not the stored one
C17_Witness ==
    /\ last.op = "get_user_by_username" /\ last.status = 200
    /\ \E i \in 1..Len(users_db) :
         users_db[i].id = last.id /\ users_db[i].username # last.arg

ItemIdsStored == {items_db[i].id : i \in 1..Len(items_db)}

\* C18: the ids of items_db, read in list order, are strictly increasing, and
\* every one of them is smaller than item_id_counter.
C18_StoreOrderedById ==
    /\ \A i, j \in 1..Len(items_db) : i < j => items_db[i].id < items_db[j].id
    /\ \A i \in 1..Len(items_db) : items_db[i].id < item_id_counter

\* ids 1 and 3 left after a delete, and the store was updated since
C18_Witness ==
    /\ Len(items_db) = 2 /\ items_db[1].id = 1 /\ items_db[2].id = 3
    /\ last.op = "update_item" /\ last.status = 200

\* C19: an id that was handed out and is no longer in items_db never comes back
\* into it, and get_item, update_item and delete_item of an id that is not in
\* items_db answer 404.
C19_DeletedStaysNotFound ==
    [][/\ \A k \in item_issued : k \notin ItemIdsStored => k \notin ItemIdsStored'
       /\ (last'.op \in {"get_item", "delete_item"} /\ last'.arg \notin ItemIdsStored)
             => last'.status = 404
       /\ (last'.op = "update_item" /\ last'.arg.id \notin ItemIdsStored)
             => last'.status = 404]_vars

\* item 2 was deleted (item 1 is still there), item 3 was created after that,
\* and get_item(2) answered 404
C19_Witness ==
    /\ last.op = "get_item" /\ last.arg = 2 /\ last.status = 404
    /\ Len(items_db) = 2 /\ items_db[1].id = 1 /\ items_db[2].id = 3
    /\ items_db[2].created_at > items_db[1].updated_at

----------------------------------------------------------------------------
(* Statistics and independence of the stores *)

\* C20: get_statistics changes no store and no counter, reports the lengths of
\* items_db and users_db as total_items and total_users, and in every state it
\* is called in it reports as many active users as users.
C20_StatisticsReadOnlyAllActive ==
    [][last'.op = "get_statistics" =>
         /\ UNCHANGED <<main_state, audit_state>>
         /\ last'.body.total_items = Len(items_db)
         /\ last'.body.total_users = Len(users_db)
         /\ last'.body.active_users = last'.body.total_users]_vars

\* statistics taken with two users and an item in the stores
C20_Witness ==
    /\ last.op = "get_statistics"
    /\ last.body.total_users = 2 /\ last.body.active_users = 2
    /\ last.body.total_items = 1 /\ Len(items_db) = 1

ItemOps == {"create_item", "get_items", "get_item", "update_item", "delete_item"}
UserOps == {"create_user", "get_users", "get_user", "get_user_by_username"}
AuditOps == {"create_audit_log", "get_audit_logs", "clear_logs"}

\* C16: an item operation leaves the user store, the audit log and their
\* counters unchanged, a user operation leaves the item store, the audit log and
\* their counters unchanged, and an audit operation leaves both stores of
\* src/main.py and their counters unchanged.
C16_StoresIndependent ==
    [][/\ last'.op \in ItemOps =>
            UNCHANGED <<users_db, user_id_counter, audit_logs, audit_id_counter>>
       /\ last'.op \in UserOps =>
            UNCHANGED <<items_db, item_id_counter, audit_logs, audit_id_counter>>
       /\ last'.op \in AuditOps =>
            UNCHANGED <<items_db, item_id_counter, users_db, user_id_counter>>]_vars

\* an item was created while all three stores held records and the three
\* counters stood at different values
C16_Witness ==
    /\ last.op = "create_item" /\ item_id_counter = 4
    /\ Len(users_db) = 1 /\ user_id_counter = 2
    /\ Len(audit_logs) = 2 /\ audit_id_counter = 3

----------------------------------------------------------------------------
(* Requests in flight *)

\* the requests whose handler has returned 201 for operation op
Created(op) ==
    {r \in Requests : requests[r].state = "done" /\ requests[r].op = op
                                                 /\ requests[r].status = 201}

\* C14: with several create requests in flight and their handlers run in any
\* order, no two create_item requests are answered with the same id and no two
\* create_user requests are, and no id is stored twice.
C14_ConcurrentCreatesGetDistinctIds ==
    /\ \A op \in {"create_item", "create_user"} :
          \A r1, r2 \in Created(op) : r1 # r2 => requests[r1].id # requests[r2].id
    /\ \A i, j \in 1..Len(items_db) : i # j => items_db[i].id # items_db[j].id
    /\ \A i, j \in 1..Len(users_db) : i # j => users_db[i].id # users_db[j].id

\* two create_item requests were answered, the later slot first, while a third
\* request was still waiting for its handler
C14_Witness ==
    /\ {1, 2} \subseteq Created("create_item")
    /\ requests[2].id = 1
    /\ requests[1].id = 2
    /\ requests[3].state = "pending"

\* C15: with several create_user requests in flight, of those whose usernames
\* or whose emails are equal up to letter case at most one is answered 201, and
\* users_db never holds two users with such usernames or such emails.
C15_ConcurrentDuplicatesRejected ==
    /\ \A r1, r2 \in Created("create_user") :
          r1 # r2 =>
            /\ ~EqualIgnoringCase(requests[r1].payload.username, requests[r2].payload.username)
            /\ ~EqualIgnoringCase(requests[r1].payload.email, requests[r2].payload.email)
    /\ \A i, j \in 1..Len(users_db) :
          i # j =>
            /\ ~EqualIgnoringCase(users_db[i].username, users_db[j].username)
            /\ ~EqualIgnoringCase(users_db[i].email, users_db[j].email)

\* two requests for the same username in different letter case were in flight;
\* the one received in the later slot was created, the other one refused
C15_Witness ==
    /\ requests[1].state = "done"
    /\ requests[1].op = "create_user"
    /\ requests[1].status = 400
    /\ 2 \in Created("create_user")
    /\ requests[1].payload.username # requests[2].payload.username
    /\ EqualIgnoringCase(requests[1].payload.username, requests[2].payload.username)
    /\ Len(users_db) = 1

====
